---- MODULE Spec2Model ----
(***************************************************************************)
(* Model of src/Loan.py: class Loan, a month-by-month loan schedule with   *)
(* date-keyed draw and paydown overrides.                                  *)
(*                                                                         *)
(* A datetime.date is the record [y, m, d].  Money amounts are integers    *)
(* (whole currency units); the two formulas of the source that divide      *)
(* (calculate_interest, calculate_amortizing_payment) divide once, as the  *)
(* source does, and the quotient is taken with \div.  A rate is the        *)
(* fraction num/den.  An OrderedDict is a function over its keys; the      *)
(* order of the keys of self.schedule is the order of self.monthly_dates,  *)
(* the list the dict is built from.                                        *)
(***************************************************************************)
EXTENDS Integers, Sequences, FiniteSets

(***************************************************************************)
(* Bounds of the model.                                                    *)
(***************************************************************************)
\* the longest loan: months from the funding month to the maturity month
MaxSpan == 3
\* calls made on a constructed loan
MaxCalls == 2

(***************************************************************************)
(* datetime.date, calendar.monthrange, dateutil.relativedelta              *)
(***************************************************************************)
Date(y, m, d) == [y |-> y, m |-> m, d |-> d]

IsLeap(y) == (y % 4 = 0) /\ ((y % 100 # 0) \/ (y % 400 = 0))

\* monthrange(year, month)[1]
DaysInMonth(y, m) ==
    IF m = 2 THEN (IF IsLeap(y) THEN 29 ELSE 28)
    ELSE IF m \in {4, 6, 9, 11} THEN 30 ELSE 31

RECURSIVE DaysBeforeMonth(_, _)
DaysBeforeMonth(y, m) ==
    IF m = 1 THEN 0 ELSE DaysBeforeMonth(y, m - 1) + DaysInMonth(y, m - 1)

\* date.toordinal()
ToOrdinal(dt) ==
    LET y1 == dt.y - 1
    IN  y1 * 365 + (y1 \div 4) - (y1 \div 100) + (y1 \div 400)
        + DaysBeforeMonth(dt.y, dt.m) + dt.d

\* (end_date - start_date).days
DaysBetween(start_date, end_date) == ToOrdinal(end_date) - ToOrdinal(start_date)

\* date >= date
DateGE(a, b) ==
    \/ a.y > b.y
    \/ a.y = b.y /\ a.m > b.m
    \/ a.y = b.y /\ a.m = b.m /\ a.d >= b.d

\* date + relativedelta(months=i): the day is clipped to the month's last day
AddMonths(dt, i) ==
    LET total == dt.y * 12 + (dt.m - 1) + i
        ny == total \div 12
        nm == (total % 12) + 1
        last == DaysInMonth(ny, nm)
    IN  Date(ny, nm, IF dt.d > last THEN last ELSE dt.d)

get_end_of_month(input_date) ==
    Date(input_date.y, input_date.m, DaysInMonth(input_date.y, input_date.m))

(***************************************************************************)
(* Arithmetic                                                              *)
(***************************************************************************)
Rate(n, d) == [num |-> n, den |-> d]

RECURSIVE Pow(_, _)
Pow(b, n) == IF n = 0 THEN 1 ELSE b * Pow(b, n - 1)

Range(s) == {s[i] : i \in 1..Len(s)}

(***************************************************************************)
(* Loan methods.  self is the record of the object's attributes.           *)
(***************************************************************************)
PaymentTypes == {"Actual/360", "30/360", "Actual/365"}

calculate_interest(self, balance, start_date, end_date) ==
    LET date_delta == DaysBetween(start_date, end_date)
        payment_type_numerator ==
            IF self.payment_type = "30/360" THEN 30 ELSE date_delta
        payment_type_denominator ==
            IF self.payment_type = "Actual/365" THEN 365 ELSE 360
    IN  (balance * self.rate.num * payment_type_numerator)
            \div (self.rate.den * payment_type_denominator)

\* monthly_rate = rate / 12 = a / b with a = rate.num, b = 12 * rate.den, so
\* (1 + monthly_rate) ** n = (a + b)^n / b^n and the annuity factor
\* monthly_rate * (1 + monthly_rate) ** n / ((1 + monthly_rate) ** n - 1)
\* is a * (a + b)^n / (b * ((a + b)^n - b^n)).
calculate_amortizing_payment(self, loan_balance) ==
    IF self.amortizing_periods = 0 THEN 0
    ELSE LET a == self.rate.num
             b == 12 * self.rate.den
             total_payments == self.amortizing_periods
         IN  IF a = 0 THEN loan_balance \div total_payments
             ELSE (loan_balance * a * Pow(a + b, total_payments))
                    \div (b * (Pow(a + b, total_payments) - Pow(b, total_payments)))

\* the list comprehension of initialize_loan_schedule
month_list(self) ==
    LET n == (self.maturity_date.y - self.fund_date.y) * 12
             + self.maturity_date.m - self.fund_date.m + 1
    IN  [i \in 1..n |-> get_end_of_month(AddMonths(self.fund_date, i - 1))]

ZeroPeriod ==
    [beginning_balance |-> 0, loan_draw |-> 0, loan_paydown |-> 0,
     interest_payment |-> 0, scheduled_principal_payment |-> 0,
     ending_balance |-> 0]

\* the OrderedDict that initialize_loan_schedule returns
initialize_loan_schedule(self) ==
    [month \in Range(month_list(self)) |-> ZeroPeriod]

initialize_monthly_activity(self) ==
    [month \in Range(self.monthly_dates) |-> 0]

\* a variant that reads the other override map
get_loan_draw_from_paydowns(self, draw_date) == self.loan_paydowns[draw_date]

get_loan_draw(self, draw_date) == self.loan_draws[draw_date]

get_loan_paydown(self, paydown_date) == self.loan_paydowns[paydown_date]

get_scheduled_principal_payment(self, period, amortizing_payment, interest_payment) ==
    IF period <= self.interest_only_periods THEN 0
    ELSE amortizing_payment - interest_payment

(***************************************************************************)
(* generate_loan_schedule: one pass over the keys of self.schedule, in     *)
(* order, writing into the dict in place.                                  *)
(***************************************************************************)
\* a variant that takes the funding draw from the override map
first_period_from_override(self, sched, key) ==
    [sched EXCEPT ![key].beginning_balance = 0,
                  ![key].loan_draw = get_loan_draw(self, key),
                  ![key].ending_balance = get_loan_draw(self, key)]

\* a variant that adds to the stored ending balance instead of assigning it
first_period_accumulating(self, sched, key) ==
    [sched EXCEPT ![key].beginning_balance = 0,
                  ![key].loan_draw = self.loan_amount,
                  ![key].ending_balance = sched[key].ending_balance + self.loan_amount]

\* the i == 0 branch: three fields are written, the other three are left
first_period(self, sched, key) ==
    [sched EXCEPT ![key].beginning_balance = 0,
                  ![key].loan_draw = self.loan_amount,
                  ![key].ending_balance = self.loan_amount]

\* a variant that forgets the scheduled principal
ending_balance_without_principal(beginning_balance, loan_draw, loan_paydown, scheduled_principal_payment) ==
    beginning_balance + loan_draw - loan_paydown

\* the right-hand side of the ending_balance assignment
ending_balance(beginning_balance, loan_draw, loan_paydown, scheduled_principal_payment) ==
    beginning_balance + loan_draw - loan_paydown - scheduled_principal_payment

\* a variant that adds the draw to the stored field instead of assigning it
later_period_accumulating(self, sched, key, prior_key) ==
    LET beginning_balance == sched[prior_key].ending_balance
        loan_draw == sched[key].loan_draw + get_loan_draw(self, key)
        interest_payment == calculate_interest(self, beginning_balance, prior_key, key)
        scheduled_principal_payment ==
            IF self.amortizing_periods = 0 THEN 0
            ELSE self.amortizing_payment - interest_payment
        loan_paydown ==
            IF key = self.maturity_date
            THEN beginning_balance - scheduled_principal_payment
            ELSE get_loan_paydown(self, key)
    IN  [sched EXCEPT ![key] =
            [beginning_balance |-> beginning_balance,
             loan_draw |-> loan_draw,
             loan_paydown |-> loan_paydown,
             interest_payment |-> interest_payment,
             scheduled_principal_payment |-> scheduled_principal_payment,
             ending_balance |-> beginning_balance + loan_draw - loan_paydown
                                - scheduled_principal_payment]]

\* the else branch
later_period(self, sched, key, prior_key) ==
    LET beginning_balance == sched[prior_key].ending_balance
        \* assigned and never read
        amortizing_payment == calculate_amortizing_payment(self, beginning_balance)
        loan_draw == get_loan_draw(self, key)
        interest_payment == calculate_interest(self, beginning_balance, prior_key, key)
        scheduled_principal_payment ==
            IF self.amortizing_periods = 0 THEN 0
            ELSE self.amortizing_payment - interest_payment
        loan_paydown ==
            IF key = self.maturity_date
            THEN beginning_balance - scheduled_principal_payment
            ELSE get_loan_paydown(self, key)
    IN  [sched EXCEPT ![key] =
            [beginning_balance |-> beginning_balance,
             loan_draw |-> loan_draw,
             loan_paydown |-> loan_paydown,
             interest_payment |-> interest_payment,
             scheduled_principal_payment |-> scheduled_principal_payment,
             ending_balance |-> ending_balance(beginning_balance, loan_draw,
                                               loan_paydown, scheduled_principal_payment)]]

\* the for loop from index i (0-based, as in the source) with prior_key
RECURSIVE generate_loop(_, _, _, _)
generate_loop(self, sched, i, prior_key) ==
    IF i >= Len(self.monthly_dates) THEN sched
    ELSE LET key == self.monthly_dates[i + 1]
         IN  IF i = 0
             THEN generate_loop(self, first_period(self, sched, key), i + 1, prior_key)
             ELSE generate_loop(self, later_period(self, sched, key, prior_key), i + 1, key)

generate_loan_schedule(self) ==
    [self EXCEPT !.schedule = generate_loop(self, self.schedule, 0, self.fund_date)]

\* d[k] = v on a dict
SetItem(d, k, v) == [x \in (DOMAIN d) \cup {k} |-> IF x = k THEN v ELSE d[x]]

add_loan_draw(self, draw, draw_date) ==
    generate_loan_schedule([self EXCEPT !.loan_draws = SetItem(self.loan_draws, draw_date, draw)])

add_loan_paydown(self, paydown, paydown_date) ==
    generate_loan_schedule([self EXCEPT !.loan_paydowns = SetItem(self.loan_paydowns, paydown_date, paydown)])

(***************************************************************************)
(* Construction                                                            *)
(***************************************************************************)
NoDate == Date(1, 1, 1)

\* the attributes before __init__ has run
NoLoan ==
    [loan_amount |-> 0, rate |-> Rate(0, 1), fund_date |-> NoDate,
     maturity_date |-> NoDate, payment_type |-> "", interest_only_periods |-> 0,
     amortizing_periods |-> 0, amortizing_payment |-> 0, monthly_dates |-> << >>,
     schedule |-> [month \in {} |-> ZeroPeriod],
     loan_draws |-> [month \in {} |-> 0], loan_paydowns |-> [month \in {} |-> 0]]

\* the four checks at the top of __init__: TRUE when one of them raises ValueError
raises_ValueError(a) ==
    \/ a.loan_amount <= 0
    \/ a.rate.num < 0 \/ a.rate.num > a.rate.den
    \/ DateGE(a.fund_date, a.maturity_date)
    \/ a.payment_type \notin PaymentTypes

\* the assignments of __init__, in order
__init__(a) ==
    LET s1 == [NoLoan EXCEPT !.loan_amount = a.loan_amount,
                             !.rate = a.rate,
                             !.fund_date = get_end_of_month(a.fund_date),
                             !.maturity_date = get_end_of_month(a.maturity_date),
                             !.payment_type = a.payment_type,
                             !.interest_only_periods = a.interest_only_periods,
                             !.amortizing_periods = a.amortizing_periods]
        s2 == [s1 EXCEPT !.amortizing_payment = calculate_amortizing_payment(s1, a.loan_amount)]
        s3 == [s2 EXCEPT !.monthly_dates = month_list(s2),
                         !.schedule = initialize_loan_schedule(s2)]
        s4 == [s3 EXCEPT !.loan_draws = initialize_monthly_activity(s3)]
    IN  [s4 EXCEPT !.loan_paydowns = initialize_monthly_activity(s4)]

(***************************************************************************)
(* The state machine: one Loan object and the calls made on it.            *)
(***************************************************************************)
VARIABLES
    args,    \* the arguments of the constructor call
    pc,      \* "new": not yet constructed; "ok": constructed; "failed": __init__ raised
    loan,    \* the object's attributes
    call,    \* the last call: its method, arguments and the exception it raised
    ncalls   \* calls made on the constructed loan

vars == <<args, pc, loan, call, ncalls>>

LoanAmounts == {0, 1200}
Rates == {Rate(0, 1), Rate(1, 1), Rate(3, 2)}
FundDates == {Date(2023, 12, 1), Date(2023, 12, 31)}
MaturityDates == {AddMonths(Date(2023, 12, 15), s) : s \in 0..MaxSpan}
PaymentTypeArgs == PaymentTypes \cup {"Actual/Actual"}
InterestOnlyArgs == {0, 1}
AmortizingArgs == {0, 2}
DrawAmounts == {300, 500}
PaydownAmounts == {250}
\* a date that is the key of no period: not the last day of its month
MidMonth == Date(2024, 1, 15)

Call(op, dt, amount, raised) == [op |-> op, date |-> dt, amount |-> amount, raised |-> raised]

Init ==
    /\ args \in [loan_amount : LoanAmounts, rate : Rates, fund_date : FundDates,
                 maturity_date : MaturityDates, payment_type : PaymentTypeArgs,
                 interest_only_periods : InterestOnlyArgs,
                 amortizing_periods : AmortizingArgs]
    /\ pc = "new"
    /\ loan = NoLoan
    /\ call = Call("none", NoDate, 0, "none")
    /\ ncalls = 0

\* Loan(...)
Construct ==
    /\ pc = "new"
    /\ IF raises_ValueError(args)
       THEN /\ pc' = "failed"
            /\ loan' = loan
            /\ call' = Call("__init__", NoDate, 0, "ValueError")
       ELSE /\ pc' = "ok"
            /\ loan' = __init__(args)
            /\ call' = Call("__init__", NoDate, 0, "none")
    /\ UNCHANGED <<args, ncalls>>

\* the dates a caller passes: every period date, and one that is no period date
CallDates == Range(loan.monthly_dates) \cup {MidMonth}

AddDraw ==
    /\ pc = "ok" /\ ncalls < MaxCalls
    /\ \E draw \in DrawAmounts, draw_date \in CallDates :
          /\ loan' = add_loan_draw(loan, draw, draw_date)
          /\ call' = Call("add_loan_draw", draw_date, draw, "none")
    /\ ncalls' = ncalls + 1
    /\ UNCHANGED <<args, pc>>

AddPaydown ==
    /\ pc = "ok" /\ ncalls < MaxCalls
    /\ \E paydown \in PaydownAmounts, paydown_date \in CallDates :
          /\ loan' = add_loan_paydown(loan, paydown, paydown_date)
          /\ call' = Call("add_loan_paydown", paydown_date, paydown, "none")
    /\ ncalls' = ncalls + 1
    /\ UNCHANGED <<args, pc>>

\* loan.generate_loan_schedule() called from outside
GetSchedule ==
    /\ pc = "ok" /\ ncalls < MaxCalls
    /\ loan' = generate_loan_schedule(loan)
    /\ call' = Call("generate_loan_schedule", NoDate, 0, "none")
    /\ ncalls' = ncalls + 1
    /\ UNCHANGED <<args, pc>>

Next == Construct \/ AddDraw \/ AddPaydown \/ GetSchedule

Spec == Init /\ [][Next]_vars

(***************************************************************************)
(* Properties                                                              *)
(***************************************************************************)
\* the schedule in loan.schedule is one a generation pass has produced
Generated ==
    /\ pc = "ok"
    /\ call.op \in {"add_loan_draw", "add_loan_paydown", "generate_loan_schedule"}

NumPeriods == Len(loan.monthly_dates)

\* the period of index i, counted from 0 as the source counts
Period(i) == loan.schedule[loan.monthly_dates[i + 1]]

IndexOf(dt) == CHOOSE i \in 0..(NumPeriods - 1) : loan.monthly_dates[i + 1] = dt

\* the period dates strictly between the funding date and the maturity date
InteriorDates == Range(loan.monthly_dates) \ {loan.fund_date, loan.maturity_date}

\* C1: after any calls, the maturity period of the generated schedule has
\* ending balance 0.
C1_MaturityRetired ==
    Generated => loan.schedule[loan.maturity_date].ending_balance = 0

\* C2: in every generated schedule, every period i > 0 has
\* ending = beginning + draw - paydown - scheduled principal, and its beginning
\* balance is the ending balance of period i - 1.
C2_BalanceContinuity ==
    Generated =>
        \A i \in 1..(NumPeriods - 1) :
            /\ Period(i).ending_balance =
                   Period(i).beginning_balance + Period(i).loan_draw
                   - Period(i).loan_paydown - Period(i).scheduled_principal_payment
            /\ Period(i).beginning_balance = Period(i - 1).ending_balance

C2_Witness ==
    /\ Generated
    /\ NumPeriods >= 3
    /\ \E i \in 1..(NumPeriods - 1) :
          /\ Period(i).loan_draw # 0
          /\ Period(i).loan_paydown # 0
          /\ Period(i).scheduled_principal_payment # 0

\* C3: add_loan_draw and add_loan_paydown with a date that is no period date
\* raise an error and leave the override maps and the schedule as they were.
C3_UnknownDateRejected ==
    [][(/\ ncalls' = ncalls + 1
        /\ call'.op \in {"add_loan_draw", "add_loan_paydown"}
        /\ call'.date \notin Range(loan.monthly_dates))
       => (call'.raised = "KeyError" /\ loan' = loan)]_vars

\* C4: period 0 of every generated schedule has draw = ending = loan amount and
\* beginning, paydown, interest and scheduled principal 0, whatever overrides
\* are set on the funding date.
C4_FundingPeriod ==
    Generated =>
        /\ Period(0).loan_draw = loan.loan_amount
        /\ Period(0).ending_balance = loan.loan_amount
        /\ Period(0).beginning_balance = 0
        /\ Period(0).loan_paydown = 0
        /\ Period(0).interest_payment = 0
        /\ Period(0).scheduled_principal_payment = 0

C4_Witness ==
    /\ Generated
    /\ loan.loan_draws[loan.fund_date] # 0
    /\ loan.loan_paydowns[loan.fund_date] # 0
    /\ NumPeriods >= 2

\* C5: every period i with 1 <= i <= interest_only_periods has scheduled
\* principal 0.
C5_InterestOnlyNoPrincipal ==
    Generated =>
        \A i \in 1..(NumPeriods - 1) :
            i <= loan.interest_only_periods =>
                Period(i).scheduled_principal_payment = 0

\* the schedule of the same loan with no draw set on date dt
WithoutDraw(dt) ==
    generate_loan_schedule([loan EXCEPT !.loan_draws[dt] = 0]).schedule

\* the last call was add_loan_draw on a date strictly between funding and maturity
DrawAddedInside ==
    /\ Generated
    /\ call.op = "add_loan_draw"
    /\ call.date \in InteriorDates

\* C6, as claimed: a draw of X added on an interior date d raises the draw and
\* the ending balance of period d, and the beginning and ending balances of
\* every later period, by exactly X over the schedule without that draw.
C6_DrawShiftsAllLaterBalances ==
    DrawAddedInside =>
        LET d == call.date
            X == call.amount
            base == WithoutDraw(d)
        IN  /\ loan.schedule[d].loan_draw = base[d].loan_draw + X
            /\ loan.schedule[d].ending_balance = base[d].ending_balance + X
            /\ \A j \in (IndexOf(d) + 1)..(NumPeriods - 1) :
                  LET e == loan.monthly_dates[j + 1]
                  IN  /\ loan.schedule[e].beginning_balance = base[e].beginning_balance + X
                      /\ loan.schedule[e].ending_balance = base[e].ending_balance + X

\* C6, amended: the draw raises the draw and the ending balance of period d and
\* the beginning balance of the next period by exactly X, and leaves the ending
\* balance of the maturity period as it was; with amortizing_periods = 0 it
\* also raises by exactly X the beginning balance of every later period and the
\* ending balance of every later period before maturity.
C6_DrawShift ==
    DrawAddedInside =>
        LET d == call.date
            X == call.amount
            base == WithoutDraw(d)
            next == loan.monthly_dates[IndexOf(d) + 2]
            m == loan.maturity_date
        IN  /\ loan.schedule[d].loan_draw = base[d].loan_draw + X
            /\ loan.schedule[d].ending_balance = base[d].ending_balance + X
            /\ loan.schedule[next].beginning_balance = base[next].beginning_balance + X
            /\ loan.schedule[m].ending_balance = base[m].ending_balance
            /\ loan.amortizing_periods = 0 =>
                  \A j \in (IndexOf(d) + 1)..(NumPeriods - 1) :
                      LET e == loan.monthly_dates[j + 1]
                      IN  /\ loan.schedule[e].beginning_balance = base[e].beginning_balance + X
                          /\ e # m => loan.schedule[e].ending_balance = base[e].ending_balance + X

C6_Witness ==
    /\ DrawAddedInside
    /\ loan.amortizing_periods = 0
    /\ loan.rate.num > 0
    /\ NumPeriods >= 4
    /\ call.date = loan.monthly_dates[2]
    /\ call.amount > 0

\* the loan as constructed, with the overrides now set on its period dates
Fresh ==
    [loan EXCEPT !.schedule = initialize_loan_schedule(loan),
                 !.loan_draws = [dt \in Range(loan.monthly_dates) |-> loan.loan_draws[dt]],
                 !.loan_paydowns = [dt \in Range(loan.monthly_dates) |-> loan.loan_paydowns[dt]]]

\* C7: the generated schedule is a function of the loan terms and of the
\* override values on the period dates: it is the schedule one pass computes
\* from the zero-filled schedule of construction, whatever calls came before.
C7_FunctionOfOverrides ==
    Generated => loan.schedule = generate_loan_schedule(Fresh).schedule

C7_Witness ==
    /\ Generated
    /\ ncalls >= 2
    /\ NumPeriods >= 3
    /\ \E dt \in InteriorDates : loan.loan_draws[dt] # 0
    /\ \E dt \in InteriorDates : loan.loan_paydowns[dt] # 0

\* C8: a generation pass that follows another with no override set in between
\* changes no field of any period and no override entry.
C8_Idempotent ==
    [][(/\ Generated
        /\ ncalls' = ncalls + 1
        /\ call'.op = "generate_loan_schedule")
       => (/\ loan'.schedule = loan.schedule
           /\ loan'.loan_draws = loan.loan_draws
           /\ loan'.loan_paydowns = loan.loan_paydowns)]_vars

C8_Witness ==
    /\ pc = "ok"
    /\ call.op = "generate_loan_schedule"
    /\ ncalls >= 2
    /\ NumPeriods >= 3

\* C9: every constructed loan has a stored maturity date strictly later than
\* its stored funding date.
C9_MaturityAfterFunding ==
    pc = "ok" => ~DateGE(loan.fund_date, loan.maturity_date)

\* C10: with amortizing_periods > 0, every period i > interest_only_periods has
\* scheduled principal = level payment on its own beginning balance - interest.
C10_LevelPaymentRecomputed ==
    (Generated /\ loan.amortizing_periods > 0) =>
        \A i \in 1..(NumPeriods - 1) :
            i > loan.interest_only_periods =>
                Period(i).scheduled_principal_payment =
                    calculate_amortizing_payment(loan, Period(i).beginning_balance)
                    - Period(i).interest_payment

====
